---- MODULE Spec2Model ----
(***************************************************************************)
(* A model of AzurePlatformAdaptee (azure-platform-adaptee.ts): the        *)
(* consistency-checked document-store client (getItemFromDb, saveItemToDb, *)
(* deleteItemFromDb) over a Cosmos container, and the API request cache    *)
(* built on it (apiRequestReadCache, apiRequestSaveCache,                  *)
(* apiRequestDeleteCache, requestWithCaching).                             *)
(*                                                                         *)
(* Every async method is cut at its awaits: one action per stretch of code *)
(* between two backend round trips, so that concurrent invocations         *)
(* interleave exactly where the event loop lets them.                      *)
(***************************************************************************)
EXTENDS Integers, FiniteSets, Sequences, TLC

VARIABLES
    store,      \* the settings container: id -> stored document or NoRec
    rev,        \* the backend's revision counter, source of fresh _etag values
    pc,         \* per invocation slot: where the method is suspended
    arg,        \* per invocation slot: the call and its arguments
    snap,       \* per invocation slot: itemSnapshot (NoRec while undefined)
    rstat,      \* per invocation slot: statusCode of the snapshot read
    resp,       \* per invocation slot: statusCode of the mutating backend call
    err,        \* per invocation slot: the error thrown (NoErr if none)
    ret,        \* per invocation slot: the value returned (NoRec if none)
    cache,      \* the ApiRequestCache container: cache id -> stored document or NoRec
    now,        \* Date.now(), which is also the clock the backend stamps _ts with
    loc         \* per invocation slot: the locals of requestWithCaching

dbVars == <<store, rev, pc, arg, snap, rstat, resp, err, ret>>
cacheVars == <<cache, now, loc>>
vars == <<store, rev, pc, arg, snap, rstat, resp, err, ret, cache, now, loc>>

-----------------------------------------------------------------------------
(* Bounds of the model.                                                    *)

\* number of revisions the backend may hand out after the initial ones
MaxRev == 2

\* the clock runs to a little over MaxSec seconds
MaxSec == 2

\* the longest parameter list handed to generateCacheId on its own
MaxLen == 2

-----------------------------------------------------------------------------
(* JavaScript values.  A value is a record [t, v]: t is its typeof-like    *)
(* tag, v its printed form.  Strict equality (===) is record equality.     *)

S(s) == [t |-> "string", v |-> s]
Num(n) == [t |-> "number", v |-> n]
Zero == Num(0)
NaN == [t |-> "NaN", v |-> "NaN"]
Arr(seq) == [t |-> "array", v |-> seq]
Data(text) == [t |-> "object", v |-> text]
Null == [t |-> "null", v |-> "null"]
Undefined == [t |-> "undefined", v |-> "undefined"]
Etag(n) == [t |-> "etag", v |-> n]

\* String(x), for the values ids and keys take
String(x) == IF x = Zero THEN S("0") ELSE [t |-> "string", v |-> x.v]

\* the truthiness of x, as used by ||, && and !
Truthy(x) ==
    \/ x.t = "string" /\ x.v # ""
    \/ x.t = "number" /\ x.v # 0
    \/ x.t \in {"etag", "array", "object"}

\* Number(x) === 0
NumberIsZero(x) ==
    \/ x = Zero
    \/ x = Null
    \/ x.t = "string" /\ x.v \in {"", "0"}

\* no document / no object (null or undefined where an object is expected)
NoRec == [absent |-> TRUE]
NoErr == [kind |-> "none", code |-> "none"]

DbReadError(code) == [kind |-> "DbReadError", code |-> code]
DbSaveError(code) == [kind |-> "DbSaveError", code |-> code]
DbDeleteError(code) == [kind |-> "DbDeleteError", code |-> code]
ValidationError == [kind |-> "Error", code |-> "validation"]


-----------------------------------------------------------------------------
(* Tables (db-definitions.ts, azure-db-definitions.ts).                    *)

\* AzureSettings: the primary key is settingKey, a field other than id
SettingsTable ==
    [name |-> "Settings", primaryKeyName |-> "settingKey",
     required |-> {"settingKey", "settingValue"}]

\* AzureApiRequestCache: the primary key is the id itself
CacheTable ==
    [name |-> "ApiRequestCache", primaryKeyName |-> "id", required |-> {"id", "res"}]

\* Table.validateInput: the required non-metadata attributes must be there
validateInput(table, item) == \A a \in table.required : item[a] # Undefined

\* Table.convertRecord: the typed record keeps the attributes and the metadata
\* the store returned; a cache row takes its cacheTime from the backend's _ts
convertRecord(table, resource) ==
    IF table.name = CacheTable.name THEN
        [id |-> resource.id, res |-> resource.res, ttl |-> resource.ttl,
         cacheTime |-> resource._ts, _etag |-> resource._etag]
    ELSE resource

-----------------------------------------------------------------------------
(* The Cosmos container, as the adaptee sees it: status code and resource. *)

Procs == {"p1", "p2"}
Keys == {S("a"), S("b")}
IdVals == Keys \cup {Zero, Undefined}
PkVals == Keys \cup {Null, Undefined}
FieldVals == {S("x"), S("y"), Undefined}
DocIds == {String(x) : x \in IdVals \cup PkVals}
SaveConditions == {"InsertOnly", "UpdateOnly", "Upsert"}

\* what a backend call may do besides answering: "status" is a non-success
\* status other than NOT_FOUND, "empty" a success that carries no resource
ReadFaults == {"none", "status"}
UpsertFaults == {"none", "status", "empty"}

Exists(st, idv) == idv \in DOMAIN st /\ st[idv] # NoRec

\* container.item(id).read()
ItemRead(st, idv, fault) ==
    IF fault = "status" THEN [statusCode |-> "OTHER", resource |-> NoRec]
    ELSE IF Exists(st, idv) THEN [statusCode |-> "OK", resource |-> st[idv]]
    ELSE [statusCode |-> "NOT_FOUND", resource |-> NoRec]

\* whether the backend lets a write with these RequestOptions through
PreconditionHolds(st, idv, options) ==
    \/ options = NoRec
    \/ Exists(st, idv) /\ st[idv]._etag = options.condition

\* the metadata the backend sets on a write: a fresh _etag, and the time as _ts
\* (the settings documents of this model carry no _ts)
Stamp(doc, r, ts) ==
    IF "_ts" \in DOMAIN doc
    THEN [doc EXCEPT !._etag = Etag(r + 1), !._ts = Num(ts)]
    ELSE [doc EXCEPT !._etag = Etag(r + 1)]

\* container.items.upsert(doc, options): the response and the container after it
ItemsUpsert(st, r, ts, doc, options, fault) ==
    IF fault = "status" THEN
        [statusCode |-> "OTHER", resource |-> NoRec, store |-> st]
    ELSE IF ~PreconditionHolds(st, doc.id, options) THEN
        [statusCode |-> "PRECONDITION_FAILED", resource |-> NoRec, store |-> st]
    ELSE
        LET written == Stamp(doc, r, ts) IN
        [statusCode |-> IF Exists(st, doc.id) THEN "OK" ELSE "CREATED",
         resource |-> IF fault = "empty" THEN NoRec ELSE written,
         store |-> [st EXCEPT ![doc.id] = written]]

\* container.item(id).delete()
ItemDeleteIdempotent(st, idv, fault) ==
    IF fault = "status" THEN [statusCode |-> "OTHER", store |-> st]
    ELSE [statusCode |-> "OK", store |-> [st EXCEPT ![idv] = NoRec]]

ItemDelete(st, idv, fault) ==
    IF fault = "status" THEN [statusCode |-> "OTHER", store |-> st]
    ELSE IF Exists(st, idv) THEN
        [statusCode |-> "OK", store |-> [st EXCEPT ![idv] = NoRec]]
    ELSE [statusCode |-> "NOT_FOUND", store |-> st]

-----------------------------------------------------------------------------
(* getItemFromDb                                                           *)

getItemFromDb(table, st, idv, fault) ==
    LET itemResponse == ItemRead(st, idv, fault) IN
    IF itemResponse.statusCode = "OK" THEN
        [err |-> NoErr, item |-> convertRecord(table, itemResponse.resource),
         statusCode |-> itemResponse.statusCode]
    ELSE IF itemResponse.statusCode = "NOT_FOUND" THEN
        [err |-> DbReadError("NotFound"), item |-> NoRec,
         statusCode |-> itemResponse.statusCode]
    ELSE [err |-> DbReadError("UnexpectedResponse"), item |-> NoRec,
          statusCode |-> itemResponse.statusCode]

-----------------------------------------------------------------------------
(* saveItemToDb                                                            *)

\* SaveOptions with the access condition forgotten
SaveOptionsNoAccessCondition(ensureDataConsistency, itemSnapshot) == NoRec

\* SaveOptions with the access condition sent whatever the caller asked for
SaveOptionsAlwaysGuarded(ensureDataConsistency, itemSnapshot) ==
    [type |-> "IfMatch",
     condition |-> IF itemSnapshot # NoRec THEN itemSnapshot._etag ELSE Undefined]

\* the RequestOptions of the upsert: ensureDataConsistency && {accessCondition}
SaveOptions(ensureDataConsistency, itemSnapshot) ==
    IF ensureDataConsistency THEN
        [type |-> "IfMatch",
         condition |-> IF itemSnapshot # NoRec THEN itemSnapshot._etag ELSE Undefined]
    ELSE NoRec

\* SaveCheck without the InsertOnly branch
SaveCheckNoKeyConflict(table, item, condition, ensureDataConsistency, itemSnapshot) ==
    IF condition = "UpdateOnly" /\ itemSnapshot = NoRec THEN
        DbSaveError("NotFound")
    ELSE IF /\ ensureDataConsistency
            /\ itemSnapshot # NoRec
            /\ item[table.primaryKeyName] # itemSnapshot[table.primaryKeyName]
    THEN DbSaveError("InconsistentData")
    ELSE NoErr

\* SaveCheck comparing the primary key whatever ensureDataConsistency is
SaveCheckAlwaysConsistent(table, item, condition, ensureDataConsistency, itemSnapshot) ==
    IF condition = "UpdateOnly" /\ itemSnapshot = NoRec THEN
        DbSaveError("NotFound")
    ELSE IF condition = "InsertOnly" /\ itemSnapshot # NoRec THEN
        DbSaveError("KeyConflict")
    ELSE IF /\ itemSnapshot # NoRec
            /\ item[table.primaryKeyName] # itemSnapshot[table.primaryKeyName]
    THEN DbSaveError("InconsistentData")
    ELSE NoErr

\* the condition and consistency checks between the snapshot read and the write
SaveCheck(table, item, condition, ensureDataConsistency, itemSnapshot) ==
    IF condition = "UpdateOnly" /\ itemSnapshot = NoRec THEN
        DbSaveError("NotFound")
    ELSE IF condition = "InsertOnly" /\ itemSnapshot # NoRec THEN
        DbSaveError("KeyConflict")
    ELSE IF /\ ensureDataConsistency
            /\ itemSnapshot # NoRec
            /\ item[table.primaryKeyName] # itemSnapshot[table.primaryKeyName]
    THEN DbSaveError("InconsistentData")
    ELSE NoErr

\* saveItem.id
SaveItemId(table, item) ==
    IF (Truthy(item.id) \/ NumberIsZero(item.id)) /\ Truthy(item.id)
    THEN item.id
    ELSE String(item[table.primaryKeyName])

\* the document handed to upsert: the item with its id set and the metadata deleted
SaveItem(table, item) ==
    [item EXCEPT !.id = SaveItemId(table, item), !._etag = Undefined]

\* SaveOutcome with the key conflict found only once the upsert has replaced a document
SaveOutcomeConflictAfterWrite(table, result) ==
    IF result.statusCode = "OK" THEN [err |-> DbSaveError("KeyConflict"), ret |-> NoRec]
    ELSE IF result.statusCode = "CREATED" /\ result.resource # NoRec
    THEN [err |-> NoErr, ret |-> convertRecord(table, result.resource)]
    ELSE [err |-> DbSaveError("UnexpectedResponse"), ret |-> NoRec]

\* what saveItemToDb makes of the upsert's response
SaveOutcome(table, result) ==
    IF result.statusCode \in {"OK", "CREATED"} THEN
        IF result.resource = NoRec
        THEN [err |-> DbSaveError("UnexpectedResponse"), ret |-> NoRec]
        ELSE [err |-> NoErr, ret |-> convertRecord(table, result.resource)]
    ELSE [err |-> DbSaveError("UnexpectedResponse"), ret |-> NoRec]

\* the method ends: it throws e or returns r
Finish(p, e, r) ==
    /\ pc' = [pc EXCEPT ![p] = "done"]
    /\ err' = [err EXCEPT ![p] = e]
    /\ ret' = [ret EXCEPT ![p] = r]

\* from the call to the await of the upsert: validation, snapshot read, checks
SaveBegin(p, item, condition, ensureDataConsistency, fault) ==
    /\ pc[p] = "idle"
    /\ arg' = [arg EXCEPT ![p] = [op |-> "save", item |-> item, condition |-> condition,
                                  ensureDataConsistency |-> ensureDataConsistency]]
    /\ UNCHANGED <<store, rev, resp, cache, now, loc>>
    /\ IF ~validateInput(SettingsTable, item) THEN
           /\ Finish(p, ValidationError, NoRec)
           /\ UNCHANGED <<snap, rstat>>
       ELSE
           LET read == getItemFromDb(SettingsTable, store, item.id, fault)
               check == SaveCheck(SettingsTable, item, condition,
                                  ensureDataConsistency, read.item)
           IN
           /\ snap' = [snap EXCEPT ![p] = read.item]
           /\ rstat' = [rstat EXCEPT ![p] = read.statusCode]
           /\ IF read.err # NoErr THEN Finish(p, read.err, NoRec)
              ELSE IF check # NoErr THEN Finish(p, check, NoRec)
              ELSE /\ rev + Cardinality({q \in Procs : pc[q] = "upsert"}) < MaxRev
                   /\ pc' = [pc EXCEPT ![p] = "upsert"]
                   /\ UNCHANGED <<err, ret>>

\* the upsert and the rest of the method
SaveUpsert(p, fault) ==
    /\ pc[p] = "upsert"
    /\ LET a == arg[p]
           result == ItemsUpsert(store, rev, now, SaveItem(SettingsTable, a.item),
                                 SaveOptions(a.ensureDataConsistency, snap[p]), fault)
           outcome == SaveOutcome(SettingsTable, result)
       IN
       /\ store' = result.store
       /\ rev' = IF result.statusCode \in {"OK", "CREATED"} THEN rev + 1 ELSE rev
       /\ resp' = [resp EXCEPT ![p] = result.statusCode]
       /\ Finish(p, outcome.err, outcome.ret)
       /\ UNCHANGED <<arg, snap, rstat, cache, now, loc>>

-----------------------------------------------------------------------------
(* deleteItemFromDb                                                        *)

\* keyDiff looking at the primary key and the id only
keyDiffKeysOnly(itemSnapshot, item) ==
    {key \in {"id", "settingKey"} : itemSnapshot[key] # item[key]}

\* Object.keys(itemSnapshot).filter(key => itemSnapshot[key] !== item[key])
keyDiff(itemSnapshot, item) ==
    {key \in DOMAIN itemSnapshot : itemSnapshot[key] # item[key]}

\* the checks made whatever ensureDataConsistency is: primary key and id
DeleteKeyCheck(table, item) ==
    IF item[table.primaryKeyName] = Null THEN DbDeleteError("InconsistentData")
    ELSE IF item.id # item[table.primaryKeyName] THEN DbDeleteError("InconsistentData")
    ELSE NoErr

\* the error deleteItemFromDb's catch block throws for a failed snapshot read
DeleteReadError(readErr) ==
    IF readErr.kind = "DbReadError" THEN DbDeleteError("NotFound") ELSE readErr

\* what deleteItemFromDb makes of the delete's response
DeleteOutcome(deleteResponse) ==
    IF deleteResponse.statusCode = "OK" THEN NoErr
    ELSE IF deleteResponse.statusCode = "NOT_FOUND" THEN DbDeleteError("NotFound")
    ELSE DbDeleteError("UnexpectedResponse")

\* from the call to the await of the delete: validation, snapshot, full match, key checks
DeleteBegin(p, item, ensureDataConsistency, fault) ==
    /\ pc[p] = "idle"
    /\ arg' = [arg EXCEPT ![p] = [op |-> "delete", item |-> item, condition |-> "none",
                                  ensureDataConsistency |-> ensureDataConsistency]]
    /\ UNCHANGED <<store, rev, resp, cache, now, loc>>
    /\ LET table == SettingsTable
           read == getItemFromDb(table, store, String(item[table.primaryKeyName]), fault)
           check == DeleteKeyCheck(table, item)
           proceed == /\ pc' = [pc EXCEPT ![p] = "delete"]
                      /\ UNCHANGED <<err, ret>>
       IN
       IF ensureDataConsistency THEN
           IF ~validateInput(table, item) THEN
               /\ Finish(p, ValidationError, NoRec)
               /\ UNCHANGED <<snap, rstat>>
           ELSE
               /\ snap' = [snap EXCEPT ![p] = read.item]
               /\ rstat' = [rstat EXCEPT ![p] = read.statusCode]
               /\ IF read.err # NoErr THEN Finish(p, DeleteReadError(read.err), NoRec)
                  ELSE IF keyDiff(read.item, item) # {} THEN
                      Finish(p, DbDeleteError("InconsistentData"), NoRec)
                  ELSE IF check # NoErr THEN Finish(p, check, NoRec)
                  ELSE proceed
       ELSE
           /\ UNCHANGED <<snap, rstat>>
           /\ IF check # NoErr THEN Finish(p, check, NoRec) ELSE proceed

\* the delete and the rest of the method
DeleteCall(p, fault) ==
    /\ pc[p] = "delete"
    /\ LET deleteResponse == ItemDelete(store, arg[p].item.id, fault) IN
       /\ store' = deleteResponse.store
       /\ resp' = [resp EXCEPT ![p] = deleteResponse.statusCode]
       /\ Finish(p, DeleteOutcome(deleteResponse), NoRec)
       /\ UNCHANGED <<rev, arg, snap, rstat, cache, now, loc>>

-----------------------------------------------------------------------------
(* a caller's getItemFromDb, and the end of an invocation                  *)

GetItem(p, idv, fault) ==
    /\ pc[p] = "idle"
    /\ LET read == getItemFromDb(SettingsTable, store, idv, fault) IN
       /\ arg' = [arg EXCEPT ![p] = [op |-> "get", item |-> [id |-> idv],
                                     condition |-> "none",
                                     ensureDataConsistency |-> FALSE]]
       /\ rstat' = [rstat EXCEPT ![p] = read.statusCode]
       /\ Finish(p, read.err, read.item)
    /\ UNCHANGED <<store, rev, snap, resp, cache, now, loc>>

NoArg == [op |-> "none"]

\* the caller takes the result; the slot is free for the next invocation
Return(p) ==
    /\ pc[p] = "done"
    /\ pc' = [pc EXCEPT ![p] = "idle"]
    /\ arg' = [arg EXCEPT ![p] = NoArg]
    /\ snap' = [snap EXCEPT ![p] = NoRec]
    /\ rstat' = [rstat EXCEPT ![p] = "none"]
    /\ resp' = [resp EXCEPT ![p] = "none"]
    /\ err' = [err EXCEPT ![p] = NoErr]
    /\ ret' = [ret EXCEPT ![p] = NoRec]
    /\ loc' = [loc EXCEPT ![p] = NoRec]
    /\ UNCHANGED <<store, rev, cache, now>>

-----------------------------------------------------------------------------
(* The API request cache: generateCacheId, apiRequestReadCache,            *)
(* apiRequestDeleteCache, apiRequestSaveCache.                             *)

\* milliseconds in a second: the factor in timeToLive * 1000 and res.ttl * 1000
MsPerSec == 1000

\* const ttl = 600 in requestWithCaching
DefaultTtl == 600

\* array.join('-')
RECURSIVE Join(_)
Join(seq) ==
    IF Len(seq) = 0 THEN ""
    ELSE IF Len(seq) = 1 THEN seq[1]
    ELSE seq[1] \o "-" \o Join(Tail(seq))

\* [api, ...parameters.map(String)].join('-')
generateCacheId(api, parameters) == S(Join(<<api.v>> \o parameters.v))

\* x * k on a number; NaN on anything else
Times(x, k) == IF x.t = "number" THEN Num(x.v * k) ELSE NaN

\* JSON.stringify and JSON.parse on the payloads of the model: a payload's v is
\* its JSON text
Stringify(d) == IF d = Null THEN S("null") ELSE S(d.v)
Parse(text) == IF text.v = "null" THEN Null ELSE Data(text.v)

\* a caller's generateCacheId(api, parameters)
GenerateCacheId(p, api, parameters) ==
    /\ pc[p] = "idle"
    /\ arg' = [arg EXCEPT ![p] = [op |-> "cacheId", api |-> api,
                                  parameters |-> parameters]]
    /\ Finish(p, NoErr, generateCacheId(api, parameters))
    /\ UNCHANGED <<store, rev, snap, rstat, resp, cache, now, loc>>

\* whether a cache row read at time t is still alive for the request
Alive(req, item, t) ==
    LET timeToLive == IF Truthy(req.ttl) THEN req.ttl ELSE item.ttl IN
    item.cacheTime.v + timeToLive.v * MsPerSec > t

\* apiRequestReadCache: the error thrown, or the ApiCacheResult (NoRec for null)
apiRequestReadCache(st, req, t, fault) ==
    LET read == getItemFromDb(CacheTable, st,
                              generateCacheId(req.api, req.parameters), fault)
        item == read.item
    IN
    IF read.err # NoErr THEN
        [err |-> read.err, res |-> NoRec, statusCode |-> read.statusCode]
    ELSE IF item # NoRec /\ Alive(req, item, t) THEN
        [err |-> NoErr, statusCode |-> read.statusCode,
         res |-> [id |-> item.id, api |-> Undefined, parameters |-> Undefined,
                  stringifiedData |-> item.res, ttl |-> item.ttl,
                  cacheTime |-> item.cacheTime]]
    ELSE [err |-> NoErr, res |-> NoRec, statusCode |-> read.statusCode]

\* the item apiRequestDeleteCache hands to deleteItemFromDb
DeleteCacheItem(req) ==
    [id |-> generateCacheId(req.api, req.parameters), res |-> Null,
     cacheTime |-> Null, ttl |-> Null, _etag |-> Undefined, _ts |-> Undefined]

\* apiRequestDeleteCache with the failure of the delete swallowed
apiRequestDeleteCacheQuiet(st, req, fault) ==
    LET deleteResponse == ItemDelete(st, DeleteCacheItem(req).id, fault) IN
    [err |-> NoErr, store |-> deleteResponse.store,
     statusCode |-> deleteResponse.statusCode]

\* apiRequestDeleteCache: deleteItemFromDb(table, item, false), whose only await
\* is the backend delete; the error thrown and the container after it
apiRequestDeleteCache(st, req, fault) ==
    LET item == DeleteCacheItem(req)
        check == DeleteKeyCheck(CacheTable, item)
        deleteResponse == ItemDelete(st, item.id, fault)
    IN
    IF check # NoErr THEN [err |-> check, store |-> st, statusCode |-> "none"]
    ELSE [err |-> DeleteOutcome(deleteResponse), store |-> deleteResponse.store,
          statusCode |-> deleteResponse.statusCode]

\* SaveCacheArgsOk with the api and parameters alternative forgotten
SaveCacheArgsOkIdOnly(res) == Truthy(res.id)

\* the argument check of apiRequestSaveCache
SaveCacheArgsOk(res) ==
    Truthy(res.id) \/ (~Truthy(res.id) /\ Truthy(res.api) /\ Truthy(res.parameters))

InvalidCacheResult == [kind |-> "Error", code |-> "InvalidCacheResult"]
TypeError == [kind |-> "TypeError", code |-> "TypeError"]

\* SaveCacheItem with the payload dropped
SaveCacheItemNoPayload(res) ==
    [id |-> IF Truthy(res.id) THEN res.id
            ELSE generateCacheId(res.api, res.parameters),
     res |-> S(""), cacheTime |-> Undefined,
     ttl |-> Times(res.ttl, MsPerSec), _etag |-> Undefined, _ts |-> Undefined]

\* the item apiRequestSaveCache hands to saveItemToDb
SaveCacheItem(res) ==
    [id |-> IF Truthy(res.id) THEN res.id
            ELSE generateCacheId(res.api, res.parameters),
     res |-> res.stringifiedData, cacheTime |-> Undefined,
     ttl |-> Times(res.ttl, MsPerSec), _etag |-> Undefined, _ts |-> Undefined]

\* apiRequestSaveCache up to saveItemToDb's await of the snapshot read
WriteCacheCall(p, res) ==
    IF ~SaveCacheArgsOk(res) THEN Finish(p, InvalidCacheResult, NoRec)
    ELSE IF ~validateInput(CacheTable, SaveCacheItem(res)) THEN
        Finish(p, ValidationError, NoRec)
    ELSE /\ pc' = [pc EXCEPT ![p] = "wcRead"]
         /\ UNCHANGED <<err, ret>>

\* what requestWithCaching returns
Envelope(l) ==
    [result |-> l.data, cacheTime |-> l.cacheTime, ttl |-> Num(DefaultTtl),
     hitCache |-> l.hitCache]

\* the vmId of the elements of a listed payload
ListedVmIds(d) ==
    CASE d = Data("[vm1]") -> {"vm1"}
      [] d = Data("[vm1,vm2]") -> {"vm1", "vm2"}
      [] OTHER -> {}

\* list.find(v => v.vmId && v.vmId === id)
Find(d, id) == IF id.v \in ListedVmIds(d) THEN Data(id.v) ELSE Undefined

\* requestWithCaching returns the envelope to its caller: to the caller of a
\* facade as it is, or into describeInstance's look-up by vmId, which filters
\* listResult.result and fails on a result that is no array
FinishRequest(p, a, envelope) ==
    IF a.facade = "describeInstance" /\ a.req.api = S("listInstances") THEN
        IF envelope.result \in {Null, Undefined}
        THEN Finish(p, TypeError, NoRec)
        ELSE Finish(p, NoErr, [envelope EXCEPT !.result = Find(@, a.id)])
    ELSE Finish(p, NoErr, envelope)

\* the end of apiRequestSaveCache: to its caller, or on into requestWithCaching
WriteCacheFinish(p, e, res) ==
    IF arg[p].op = "request" THEN
        IF e # NoErr THEN Finish(p, e, NoRec) /\ UNCHANGED loc
        ELSE /\ loc' = [loc EXCEPT ![p].res = res, ![p].cacheTime = res.cacheTime]
             /\ FinishRequest(p, arg[p], Envelope(loc'[p]))
    ELSE Finish(p, e, IF e = NoErr THEN res ELSE NoRec) /\ UNCHANGED loc

\* a caller's apiRequestSaveCache(res)
WriteCache(p, res) ==
    /\ pc[p] = "idle"
    /\ arg' = [arg EXCEPT ![p] = [op |-> "writeCache", res |-> res]]
    /\ WriteCacheCall(p, res)
    /\ UNCHANGED <<store, rev, snap, rstat, resp, cache, now, loc>>

\* the ApiCacheResult being saved by the invocation in slot p
SavedRes(p) == IF arg[p].op = "request" THEN loc[p].res ELSE arg[p].res

\* saveItemToDb(table, item, Upsert, false) from the snapshot read to the await
\* of the upsert
WriteCacheRead(p, fault) ==
    /\ pc[p] = "wcRead"
    /\ LET item == SaveCacheItem(SavedRes(p))
           read == getItemFromDb(CacheTable, cache, item.id, fault)
           check == SaveCheck(CacheTable, item, "Upsert", FALSE, read.item)
       IN
       /\ snap' = [snap EXCEPT ![p] = read.item]
       /\ rstat' = [rstat EXCEPT ![p] = read.statusCode]
       /\ IF read.err # NoErr THEN Finish(p, read.err, NoRec)
          ELSE IF check # NoErr THEN Finish(p, check, NoRec)
          ELSE /\ rev + Cardinality({q \in Procs : pc[q] = "wcUpsert"}) < MaxRev
               /\ pc' = [pc EXCEPT ![p] = "wcUpsert"]
               /\ UNCHANGED <<err, ret>>
    /\ UNCHANGED <<store, rev, arg, resp, cache, now, loc>>

\* the upsert, the rest of saveItemToDb and the rest of apiRequestSaveCache
WriteCacheUpsert(p, fault) ==
    /\ pc[p] = "wcUpsert"
    /\ LET res == SavedRes(p)
           result == ItemsUpsert(cache, rev, now, SaveItem(CacheTable, SaveCacheItem(res)),
                                 SaveOptions(FALSE, snap[p]), fault)
           outcome == SaveOutcome(CacheTable, result)
           saved == IF outcome.err = NoErr
                    THEN [res EXCEPT !.cacheTime = outcome.ret.cacheTime] ELSE res
       IN
       /\ cache' = result.store
       /\ rev' = IF result.statusCode \in {"OK", "CREATED"} THEN rev + 1 ELSE rev
       /\ resp' = [resp EXCEPT ![p] = result.statusCode]
       /\ WriteCacheFinish(p, outcome.err, saved)
       /\ UNCHANGED <<store, arg, snap, rstat, now>>

\* a caller's apiRequestReadCache(req)
ReadCache(p, req, fault) ==
    /\ pc[p] = "idle"
    /\ LET read == apiRequestReadCache(cache, req, now, fault) IN
       /\ arg' = [arg EXCEPT ![p] = [op |-> "readCache", req |-> req]]
       /\ rstat' = [rstat EXCEPT ![p] = read.statusCode]
       /\ Finish(p, read.err, read.res)
    /\ UNCHANGED <<store, rev, snap, resp, cache, now, loc>>

\* a caller's apiRequestDeleteCache(req)
DeleteCache(p, req, fault) ==
    /\ pc[p] = "idle"
    /\ LET del == apiRequestDeleteCache(cache, req, fault) IN
       /\ arg' = [arg EXCEPT ![p] = [op |-> "deleteCache", req |-> req]]
       /\ cache' = del.store
       /\ resp' = [resp EXCEPT ![p] = del.statusCode]
       /\ Finish(p, del.err, NoRec)
    /\ UNCHANGED <<store, rev, snap, rstat, now, loc>>

-----------------------------------------------------------------------------
(* requestWithCaching                                                      *)

CacheOptions ==
    {"ReadApiFirst", "ReadApiOnly", "ReadCacheAndDelete", "ReadCacheFirst",
     "ReadCacheOnly"}

EmptyArray == Data("[]")
OriginError == [kind |-> "OriginError", code |-> "OriginError"]

\* the locals after the cache read: res, cacheTime, data, hitCache; origin counts
\* the calls of dataProcessor
LocalsAfterRead(cacheOption, res) ==
    IF cacheOption = "ReadApiOnly" THEN
        [res |-> NoRec, cacheTime |-> Undefined, data |-> Undefined,
         hitCache |-> FALSE, origin |-> 0]
    ELSE
        [res |-> res,
         cacheTime |-> IF res # NoRec THEN res.cacheTime ELSE Null,
         data |-> IF res # NoRec /\ Truthy(Parse(res.stringifiedData))
                  THEN Parse(res.stringifiedData) ELSE EmptyArray,
         hitCache |-> res # NoRec,
         origin |-> 0]

\* CallsOrigin with ReadCacheFirst going to the origin on a hit as well
CallsOriginOnHit(cacheOption, res) ==
    cacheOption \in {"ReadCacheFirst", "ReadApiOnly"}

\* CallsOrigin with ReadApiOnly served from nowhere
CallsOriginCacheFirstOnly(cacheOption, res) ==
    cacheOption = "ReadCacheFirst" /\ res = NoRec

\* whether the method goes on to call dataProcessor
CallsOrigin(cacheOption, res) ==
    \/ cacheOption = "ReadCacheFirst" /\ res = NoRec
    \/ cacheOption = "ReadApiOnly"

\* requestWithCaching from the call, over the cache read, to the next await or
\* the return; a holds the request, the option and the facade that called
RequestBegin(p, a, fault) ==
    /\ pc[p] = "idle"
    /\ arg' = [arg EXCEPT ![p] = a]
    /\ LET req == a.req
           cacheOption == a.cacheOption
           read == IF cacheOption # "ReadApiOnly"
                   THEN apiRequestReadCache(cache, req, now, fault)
                   ELSE [err |-> NoErr, res |-> NoRec, statusCode |-> "none"]
           l == LocalsAfterRead(cacheOption, read.res)
       IN
       /\ rstat' = [rstat EXCEPT ![p] = read.statusCode]
       /\ loc' = [loc EXCEPT ![p] = l]
       /\ IF read.err # NoErr THEN Finish(p, read.err, NoRec)
          ELSE IF cacheOption \in {"ReadCacheOnly", "ReadCacheAndDelete"} THEN
              IF cacheOption = "ReadCacheAndDelete" /\ l.res # NoRec
              THEN pc' = [pc EXCEPT ![p] = "engDelete"] /\ UNCHANGED <<err, ret>>
              ELSE FinishRequest(p, a, Envelope(l))
          ELSE IF CallsOrigin(cacheOption, l.res)
              THEN pc' = [pc EXCEPT ![p] = "engOrigin"] /\ UNCHANGED <<err, ret>>
              ELSE FinishRequest(p, a, Envelope(l))
    /\ UNCHANGED <<store, rev, snap, resp, cache, now>>

\* a call of requestWithCaching with a request of the caller's own
Request(p, req, cacheOption, fault) ==
    RequestBegin(p, [op |-> "request", req |-> req, cacheOption |-> cacheOption,
                     facade |-> "none", id |-> Undefined], fault)

\* the await of apiRequestDeleteCache and the rest of the method
RequestDelete(p, fault) ==
    /\ pc[p] = "engDelete"
    /\ LET del == apiRequestDeleteCache(cache, arg[p].req, fault)
           l == [loc[p] EXCEPT !.cacheTime = Num(0), !.data = Null]
       IN
       /\ cache' = del.store
       /\ resp' = [resp EXCEPT ![p] = del.statusCode]
       /\ IF del.err # NoErr THEN Finish(p, del.err, NoRec) /\ UNCHANGED loc
          ELSE loc' = [loc EXCEPT ![p] = l] /\ FinishRequest(p, arg[p], Envelope(l))
    /\ UNCHANGED <<store, rev, arg, snap, rstat, now>>

\* res.api = ..., res.parameters = ..., res.stringifiedData = ..., res.ttl = ...:
\* a TypeError when res is null
AssignToRes(res, req, data) ==
    IF res = NoRec THEN [err |-> TypeError, res |-> NoRec]
    ELSE [err |-> NoErr,
          res |-> [res EXCEPT !.api = req.api, !.parameters = req.parameters,
                              !.stringifiedData = Stringify(data), !.ttl = req.ttl]]

\* the await of dataProcessor: it throws or returns data; then on to the save
RequestOrigin(p, throws, data) ==
    /\ pc[p] = "engOrigin"
    /\ LET l == [loc[p] EXCEPT !.origin = @ + 1,
                               !.data = IF throws THEN @ ELSE data]
           set == AssignToRes(l.res, arg[p].req, data)
       IN
       IF throws THEN
           loc' = [loc EXCEPT ![p] = l] /\ Finish(p, OriginError, NoRec)
       ELSE IF Truthy(data) /\ arg[p].cacheOption = "ReadCacheFirst" THEN
           IF set.err # NoErr THEN
               loc' = [loc EXCEPT ![p] = l] /\ Finish(p, set.err, NoRec)
           ELSE
               /\ loc' = [loc EXCEPT ![p] = [l EXCEPT !.res = set.res]]
               /\ WriteCacheCall(p, set.res)
       ELSE loc' = [loc EXCEPT ![p] = l] /\ FinishRequest(p, arg[p], Envelope(l))
    /\ UNCHANGED <<store, rev, arg, snap, rstat, resp, cache, now>>

-----------------------------------------------------------------------------
(* The facades: listInstances, describeInstance                            *)

\* the payloads an origin call returns, besides null
Payloads == {Data("[vm1]"), Data("[vm1,vm2]")}

\* ttl: 600 in the request of a facade
FacadeTtl == 600

\* Number(id) on the ids of the model: the digits as a number, '' as 0, NaN for
\* any other text
Number(id) ==
    CASE id.v = "3" -> Num(3)
      [] id.v = "" -> Zero
      [] OTHER -> NaN

isFinite(n) == n.t = "number"

\* the request listInstances builds
ListInstancesReq(scalingGroupName) ==
    [api |-> S("listInstances"), parameters |-> Arr(<<scalingGroupName>>),
     ttl |-> Num(FacadeTtl)]

\* the request describeInstance builds for an instanceId
DescribeInstanceReq(scalingGroupName, id) ==
    [api |-> S("describeInstance"), parameters |-> Arr(<<scalingGroupName, id.v>>),
     ttl |-> Num(FacadeTtl)]

\* listInstances(scalingGroupName, cacheOption) up to the first await past the
\* cache read
ListInstances(p, scalingGroupName, cacheOption, fault) ==
    RequestBegin(p, [op |-> "request", req |-> ListInstancesReq(scalingGroupName),
                     cacheOption |-> cacheOption, facade |-> "listInstances",
                     id |-> Undefined], fault)

\* describeInstance(scalingGroupName, id, cacheOption): the single-instance
\* request for an id that reads as a number, else listInstances and the look-up
DescribeInstance(p, scalingGroupName, id, cacheOption, fault) ==
    IF isFinite(Number(id)) THEN
        RequestBegin(p, [op |-> "request",
                         req |-> DescribeInstanceReq(scalingGroupName, id),
                         cacheOption |-> cacheOption,
                         facade |-> "describeInstance", id |-> id], fault)
    ELSE
        RequestBegin(p, [op |-> "request",
                         req |-> ListInstancesReq(scalingGroupName),
                         cacheOption |-> cacheOption,
                         facade |-> "describeInstance", id |-> id], fault)

\* what the origin of a request returns: the list of a scaling group or null,
\* the instance of a single-instance call
OriginResults(req) ==
    IF req.api = S("describeInstance") THEN {Data("{vm3}")}
    ELSE Payloads \cup {Null}

-----------------------------------------------------------------------------
(* The specification of the store client.                                  *)

\* a document as another component of the deployment wrote it
InitialDoc(k) ==
    [id |-> k, settingKey |-> k, settingValue |-> S("x"), _etag |-> Etag(0)]

\* the metadata a caller's item may carry: none, or the revision of a stored document
ItemEtags == {Undefined} \cup {store[d]._etag : d \in {k \in DocIds : store[k] # NoRec}}

Items == [id : IdVals, settingKey : PkVals, settingValue : FieldVals, _etag : ItemEtags]

\* the items of racing writers: well formed, without metadata
RaceItems ==
    {i \in Items : i.id \in Keys /\ i.settingKey = i.id
                   /\ i.settingValue # Undefined /\ i._etag = Undefined}

\* the time-to-live values of the model, in seconds
TTLs == {1, 2}

\* the cache requests of the model: listInstances of one scaling group
Reqs ==
    [api : {S("listInstances")}, parameters : {Arr(<<"vmss-A">>)},
     ttl : {Undefined} \cup {Num(t) : t \in TTLs}]

\* the scaling group and the instance ids of the facade calls
Groups == {"vmss-A"}
DescribeIds == {S("3"), S("vm1"), S("vm9")}

FacadeReqs ==
    {ListInstancesReq(g) : g \in Groups}
    \cup {DescribeInstanceReq(g, i) : g \in Groups,
                                      i \in {d \in DescribeIds : isFinite(Number(d))}}

CacheIds == {generateCacheId(r.api, r.parameters) : r \in Reqs \cup FacadeReqs}

\* the ids of the callers' own requests, and the ids a caller names outright
RequestIds == {generateCacheId(r.api, r.parameters) : r \in Reqs}
ExplicitIds == CacheIds \ RequestIds

\* the ApiCacheResults a caller hands to apiRequestSaveCache
CacheResults ==
    [id : {Undefined} \cup RequestIds, api : {Undefined, S("listInstances")},
     parameters : {Undefined, Arr(<<"vmss-A">>)},
     stringifiedData : {Stringify(d) : d \in Payloads},
     ttl : {Num(t) : t \in TTLs}, cacheTime : {Undefined}]

\* a cache row as found in the container at the start
InitialRow(id, d, t) ==
    [id |-> id, res |-> Stringify(d), cacheTime |-> Undefined,
     ttl |-> Num(t * MsPerSec), _ts |-> Num(0), _etag |-> Etag(0)]

InitialCaches ==
    {c \in [CacheIds -> {NoRec} \cup
                {InitialRow(id, Data("[vm1]"), t) : id \in CacheIds, t \in TTLs}] :
        \A id \in CacheIds : c[id] # NoRec => c[id].id = id /\ id \in RequestIds}

\* the instants of the model: around every whole second up to MaxSec
TimePoints ==
    {t \in {k * MsPerSec + e : k \in 0..MaxSec, e \in {-1, 0, 1}} : t >= 0}

\* the instants of the facades: the start, and around the end of their time-to-live
FacadeTimePoints ==
    {t \in {k * MsPerSec + e : k \in {0, FacadeTtl}, e \in {-1, 0, 1}} : t >= 0}

\* time passes, to the next of the instants
Tick(points) ==
    /\ \E t \in points : t > now
    /\ now' = CHOOSE t \in points : t > now /\ \A u \in points : u > now => t <= u
    /\ UNCHANGED <<dbVars, cache, loc>>

\* no invocation is under way
Quiet ==
    /\ rev = 0
    /\ pc = [p \in Procs |-> "idle"]
    /\ arg = [p \in Procs |-> NoArg]
    /\ snap = [p \in Procs |-> NoRec]
    /\ rstat = [p \in Procs |-> "none"]
    /\ resp = [p \in Procs |-> "none"]
    /\ err = [p \in Procs |-> NoErr]
    /\ ret = [p \in Procs |-> NoRec]
    /\ now = 0
    /\ loc = [p \in Procs |-> NoRec]

\* the settings container holds any well-formed documents; the cache is empty
Init ==
    /\ store \in {st \in [DocIds -> {NoRec} \cup {InitialDoc(k) : k \in Keys}] :
                    \A d \in DocIds : st[d] # NoRec => d \in Keys /\ st[d].id = d}
    /\ cache = [id \in CacheIds |-> NoRec]
    /\ Quiet

\* the cache container holds any well-formed rows; the settings are empty
InitCache ==
    /\ store = [d \in DocIds |-> NoRec]
    /\ cache \in InitialCaches
    /\ Quiet

\* the slot is free: the inputs of a call are drawn only then
Idle(p) == pc[p] = "idle"

\* one caller, one invocation at a time, any input
Next ==
    \E p \in {"p1"} :
        \/ /\ Idle(p)
           /\ \E item \in Items, condition \in SaveConditions,
                 ensureDataConsistency \in BOOLEAN, fault \in ReadFaults :
                   SaveBegin(p, item, condition, ensureDataConsistency, fault)
        \/ \E fault \in UpsertFaults : SaveUpsert(p, fault)
        \/ /\ Idle(p)
           /\ \E item \in Items, ensureDataConsistency \in BOOLEAN, fault \in ReadFaults :
                   DeleteBegin(p, item, ensureDataConsistency, fault)
        \/ \E fault \in ReadFaults : DeleteCall(p, fault)
        \/ \E idv \in IdVals, fault \in ReadFaults : GetItem(p, idv, fault)
        \/ Return(p)

Spec == Init /\ [][Next]_vars

\* concurrent callers: invocations interleave at their awaits
NextRace ==
    \E p \in Procs :
        \/ /\ Idle(p)
           /\ \E item \in RaceItems, condition \in SaveConditions,
                 ensureDataConsistency \in BOOLEAN :
                   SaveBegin(p, item, condition, ensureDataConsistency, "none")
        \/ \E fault \in UpsertFaults : SaveUpsert(p, fault)
        \/ Return(p)

SpecRace == Init /\ [][NextRace]_vars

\* the cache and the caching of requests: one caller, one invocation at a time
NextCache ==
    \/ \E p \in {"p1"} :
        \/ /\ Idle(p)
           /\ \E req \in Reqs, fault \in ReadFaults : ReadCache(p, req, fault)
        \/ /\ Idle(p)
           /\ \E req \in Reqs, fault \in ReadFaults : DeleteCache(p, req, fault)
        \/ /\ Idle(p)
           /\ \E res \in CacheResults : WriteCache(p, res)
        \/ \E fault \in ReadFaults : WriteCacheRead(p, fault)
        \/ \E fault \in UpsertFaults : WriteCacheUpsert(p, fault)
        \/ /\ Idle(p)
           /\ \E req \in Reqs, cacheOption \in CacheOptions, fault \in ReadFaults :
                 Request(p, req, cacheOption, fault)
        \/ \E fault \in ReadFaults : RequestDelete(p, fault)
        \/ \E throws \in BOOLEAN, data \in Payloads \cup {Null} :
              RequestOrigin(p, throws, data)
        \/ Return(p)
    \/ Tick(TimePoints)

SpecCache == InitCache /\ [][NextCache]_vars

\* the rows the facades find at the start: none, or rows written with their ttl
InitialFacadeCaches ==
    LET rows(r) == {InitialRow(generateCacheId(r.api, r.parameters), d, FacadeTtl) :
                       d \in OriginResults(r) \ {Null, Data("[vm1,vm2]")}}
    IN
    {c \in [CacheIds -> {NoRec} \cup UNION {rows(r) : r \in FacadeReqs}] :
        \A id \in CacheIds : c[id] # NoRec => c[id].id = id}

InitFacade ==
    /\ store = [d \in DocIds |-> NoRec]
    /\ cache \in InitialFacadeCaches
    /\ Quiet

\* the ApiCacheResults another holder of the cache writes for the facades' requests
FacadeCacheResults ==
    {[id |-> Undefined, api |-> r.api, parameters |-> r.parameters,
      stringifiedData |-> Stringify(d), ttl |-> r.ttl, cacheTime |-> Undefined] :
        r \in {q \in FacadeReqs : q.api = S("listInstances")}, d \in Payloads}

\* the facades over the cache: one caller, one invocation at a time
NextFacade ==
    \/ \E p \in {"p1"} :
        \/ /\ Idle(p)
           /\ \E g \in Groups, cacheOption \in CacheOptions, fault \in ReadFaults :
                 ListInstances(p, g, cacheOption, fault)
        \/ /\ Idle(p)
           /\ \E g \in Groups, id \in DescribeIds, cacheOption \in CacheOptions,
                 fault \in ReadFaults :
                 DescribeInstance(p, g, id, cacheOption, fault)
        \/ \E fault \in ReadFaults : RequestDelete(p, fault)
        \/ /\ pc[p] = "engOrigin"
           /\ \E throws \in BOOLEAN, data \in OriginResults(arg[p].req) :
                 RequestOrigin(p, throws, data)
        \/ /\ Idle(p)
           /\ \E res \in FacadeCacheResults : WriteCache(p, res)
        \/ \E fault \in ReadFaults : WriteCacheRead(p, fault)
        \/ \E fault \in UpsertFaults : WriteCacheUpsert(p, fault)
        \/ Return(p)
    \/ Tick(FacadeTimePoints)

SpecFacade == InitFacade /\ [][NextFacade]_vars

\* the ApiCacheResults of callers that may name the row outright
NamedCacheResults ==
    [id : {Undefined} \cup ExplicitIds, api : {Undefined, S("listInstances")},
     parameters : {Undefined, Arr(<<"vmss-A">>)},
     stringifiedData : {Stringify(d) : d \in Payloads},
     ttl : {Num(t) : t \in TTLs}, cacheTime : {Undefined}]

\* rows under the ids of requests and under the named ids
InitialNamedCaches ==
    {c \in [CacheIds -> {NoRec} \cup
                {InitialRow(id, Data("[vm1]"), t) : id \in CacheIds, t \in TTLs}] :
        \A id \in CacheIds : c[id] # NoRec => c[id].id = id}

InitWrite ==
    /\ store = [d \in DocIds |-> NoRec]
    /\ cache \in InitialNamedCaches
    /\ Quiet

\* the instants of the writers: up to the end of the shortest time-to-live
WriteTimePoints == {t \in TimePoints : t <= MsPerSec + 1}

\* writers and readers of the cache: one caller, one invocation at a time
NextWrite ==
    \/ \E p \in {"p1"} :
        \/ /\ Idle(p)
           /\ \E res \in NamedCacheResults : WriteCache(p, res)
        \/ \E fault \in ReadFaults : WriteCacheRead(p, fault)
        \/ \E fault \in UpsertFaults : WriteCacheUpsert(p, fault)
        \/ /\ Idle(p)
           /\ \E req \in Reqs, fault \in ReadFaults : ReadCache(p, req, fault)
        \/ Return(p)
    \/ Tick(WriteTimePoints)

SpecWrite == InitWrite /\ [][NextWrite]_vars

\* the ApiCacheResults of writers racing for the row of one request
RaceCacheResults ==
    {r \in CacheResults : r.id = Undefined /\ Truthy(r.api) /\ Truthy(r.parameters)}

\* two callers writing the cache, their reads and upserts interleaving
NextWriteRace ==
    \E p \in Procs :
        \/ /\ Idle(p)
           /\ \E res \in RaceCacheResults : WriteCache(p, res)
        \/ \E fault \in ReadFaults : WriteCacheRead(p, fault)
        \/ \E fault \in UpsertFaults : WriteCacheUpsert(p, fault)
        \/ Return(p)

SpecWriteRace == InitCache /\ [][NextWriteRace]_vars

\* concurrent consumers: ReadCacheAndDelete invocations interleave at their awaits
NextConsume ==
    \/ \E p \in Procs :
        \/ /\ Idle(p)
           /\ \E req \in Reqs, fault \in ReadFaults :
                 Request(p, req, "ReadCacheAndDelete", fault)
        \/ \E fault \in ReadFaults : RequestDelete(p, fault)
        \/ Return(p)
    \/ Tick(TimePoints)

SpecConsume == InitCache /\ [][NextConsume]_vars

\* the api names and the parameter values of the id computations: a scaling
\* group name may itself hold the joining character
Apis == {S("listInstances"), S("describeInstance")}
ParamStrings == {"a", "b", "a-b"}

RECURSIVE SeqsUpTo(_)
SeqsUpTo(n) ==
    IF n = 0 THEN {<<>>}
    ELSE LET shorter == SeqsUpTo(n - 1) IN
         shorter \cup {Append(q, x) : q \in shorter, x \in ParamStrings}

ParamSeqs == {Arr(q) : q \in SeqsUpTo(MaxLen)}

\* nothing is stored and nothing is under way
InitId ==
    /\ store = [d \in DocIds |-> NoRec]
    /\ cache = [id \in CacheIds |-> NoRec]
    /\ Quiet

\* two callers computing cache ids
NextId ==
    \E p \in Procs :
        \/ /\ Idle(p)
           /\ \E api \in Apis, parameters \in ParamSeqs :
                 GenerateCacheId(p, api, parameters)
        \/ Return(p)

SpecId == InitId /\ [][NextId]_vars

-----------------------------------------------------------------------------
(* Properties of the store client.                                         *)

PrimaryKey(item) == item[SettingsTable.primaryKeyName]

\* C1: of two saves with ensureDataConsistency on the same id that read the
\* same snapshot, once one has succeeded the other's upsert is rejected with
\* UnexpectedResponse and the container holds what the first one wrote.
C1_SecondWriterRejected ==
    \A p, q \in Procs :
        ( /\ p # q
          /\ arg[p].op = "save" /\ arg[q].op = "save"
          /\ arg[p].ensureDataConsistency /\ arg[q].ensureDataConsistency
          /\ arg[p].item.id = arg[q].item.id
          /\ snap[p] # NoRec /\ snap[p] = snap[q]
          /\ pc[p] = "done" /\ err[p] = NoErr
          /\ pc[q] = "done" /\ resp[q] # "none" )
        => /\ err[q] = DbSaveError("UnexpectedResponse")
           /\ resp[q] \in {"PRECONDITION_FAILED", "OTHER"}
           /\ store[arg[p].item.id] = ret[p]

\* two racing writers read one snapshot; the first wrote, the second was refused
C1_Witness ==
    \E p, q \in Procs :
        /\ p # q
        /\ arg[p].op = "save" /\ arg[q].op = "save"
        /\ arg[p].ensureDataConsistency /\ arg[q].ensureDataConsistency
        /\ arg[p].item.id = arg[q].item.id
        /\ arg[p].item.settingValue # arg[q].item.settingValue
        /\ snap[p] # NoRec /\ snap[p] = snap[q]
        /\ pc[p] = "done" /\ err[p] = NoErr
        /\ pc[q] = "done" /\ resp[q] = "PRECONDITION_FAILED"
        /\ err[q] = DbSaveError("UnexpectedResponse")

\* C2: a save with Upsert of a valid item whose id is not in the container is
\* not failed by the snapshot read: it goes on to the upsert.
C2_UpsertOfAbsentProceeds ==
    \A p \in Procs :
        ( /\ arg[p].op = "save"
          /\ arg[p].condition = "Upsert"
          /\ rstat[p] = "NOT_FOUND" )
        => /\ err[p].code # "NotFound"
           /\ pc[p] = "upsert" \/ resp[p] # "none"

\* C3: InsertOnly on an id the snapshot read found fails KeyConflict, UpdateOnly
\* on an id it did not find fails NotFound; no upsert is issued and the
\* container is as it was.
C3_ConditionEnforced ==
    \A p \in Procs :
        arg[p].op = "save" =>
            /\ (arg[p].condition = "InsertOnly" /\ rstat[p] = "OK")
                  => /\ pc[p] = "done"
                     /\ err[p] = DbSaveError("KeyConflict")
                     /\ resp[p] = "none"
                     /\ store[arg[p].item.id] = snap[p]
            /\ (arg[p].condition = "UpdateOnly" /\ rstat[p] = "NOT_FOUND")
                  => /\ pc[p] = "done"
                     /\ err[p].code = "NotFound"
                     /\ resp[p] = "none"
                     /\ ~Exists(store, arg[p].item.id)

\* an InsertOnly save of an existing id has failed with KeyConflict
C3_Witness ==
    \E p \in Procs :
        /\ arg[p].op = "save"
        /\ arg[p].condition = "InsertOnly"
        /\ rstat[p] = "OK"
        /\ err[p] = DbSaveError("KeyConflict")

\* C4: once past the condition checks, a save whose item's primary key differs
\* from the snapshot's fails InconsistentData without an upsert when
\* ensureDataConsistency is set, and goes on to the upsert when it is not.
C4_PrimaryKeyMismatch ==
    \A p \in Procs :
        ( /\ arg[p].op = "save"
          /\ rstat[p] = "OK"
          /\ arg[p].condition # "InsertOnly"
          /\ PrimaryKey(arg[p].item) # PrimaryKey(snap[p]) )
        => IF arg[p].ensureDataConsistency
           THEN /\ pc[p] = "done"
                /\ err[p] = DbSaveError("InconsistentData")
                /\ resp[p] = "none"
           ELSE /\ err[p] # DbSaveError("InconsistentData")
                /\ pc[p] = "upsert" \/ resp[p] # "none"

\* both halves are seen in turn; this is the rejected one
C4_Witness ==
    \E p \in Procs :
        /\ arg[p].op = "save"
        /\ rstat[p] = "OK"
        /\ arg[p].ensureDataConsistency
        /\ PrimaryKey(arg[p].item) # PrimaryKey(snap[p])
        /\ err[p] = DbSaveError("InconsistentData")

\* C5: every document in the container has its id equal to its primary key.
C5_IdEqualsPrimaryKey ==
    \A d \in DocIds : store[d] # NoRec => store[d].id = PrimaryKey(store[d])

C7_DeleteKeyGuard ==
    \A p \in Procs :
        arg[p].op = "delete" =>
            LET keyOk == /\ PrimaryKey(arg[p].item) \notin {Null, Undefined}
                         /\ arg[p].item.id = PrimaryKey(arg[p].item)
            IN
            /\ (pc[p] = "delete" \/ resp[p] # "none") => keyOk
            /\ (~keyOk /\ ~arg[p].ensureDataConsistency)
                  => /\ pc[p] = "done"
                     /\ err[p] = DbDeleteError("InconsistentData")

-----------------------------------------------------------------------------
(* Properties of the API request cache.                                    *)

\* the time-to-live in seconds that applies to a row for a request: the
\* request's, or else the one the row was written with
TtlSeconds(req, row) ==
    IF req.ttl # Undefined THEN req.ttl.v ELSE row.ttl.v \div MsPerSec

\* C8: a readCache that finds no entry with the generated id returns null and
\* does not fail.
C8_ReadAbsentReturnsNull ==
    \A p \in Procs :
        (arg[p].op = "readCache" /\ pc[p] = "done" /\ rstat[p] = "NOT_FOUND")
            => err[p] = NoErr /\ ret[p] = NoRec

\* C9: a readCache that finds the row returns it as a hit exactly when
\* cacheTime + ttl * 1000 > now, ttl being the request's time-to-live in seconds
\* or else the one the row was written with; the row stays in the container.
C9_TtlRule ==
    [][\A req \in Reqs :
          LET id == generateCacheId(req.api, req.parameters) IN
          (ReadCache("p1", req, "none") /\ cache[id] # NoRec)
              => /\ (ret'["p1"] # NoRec)
                      <=> (cache[id]._ts.v + TtlSeconds(req, cache[id]) * MsPerSec
                              > now)
                 /\ cache' = cache]_vars

\* C10: a ReadCacheFirst request that missed and whose origin returned data
\* ends without error, with the data as its result, hitCache false, the data
\* persisted and the time of the write as cacheTime; when the origin returns
\* null nothing is written.
C10_ReadCacheFirstMiss ==
    \A p \in Procs :
        ( /\ arg[p].op = "request"
          /\ arg[p].cacheOption = "ReadCacheFirst"
          /\ loc[p] # NoRec
          /\ loc[p].origin = 1
          /\ err[p] # OriginError )
        => IF loc[p].data # Null
           THEN \/ pc[p] \in {"wcRead", "wcUpsert"}
                \/ /\ pc[p] = "done"
                   /\ resp[p] # "none"
                   /\ resp[p] \in {"OK", "CREATED"} =>
                        LET id == generateCacheId(arg[p].req.api, arg[p].req.parameters)
                        IN /\ err[p] = NoErr
                           /\ ret[p].result = loc[p].data
                           /\ ret[p].hitCache = FALSE
                           /\ cache[id] # NoRec
                           /\ cache[id].res = Stringify(loc[p].data)
                           /\ ret[p].cacheTime = cache[id]._ts
           ELSE pc[p] = "done" /\ resp[p] = "none" /\ err[p] = NoErr

\* the row of the request is valid at time t by the rule cacheTime + ttl * 1000 > now
ValidEntry(st, req, t) ==
    LET id == generateCacheId(req.api, req.parameters) IN
    /\ st[id] # NoRec
    /\ st[id]._ts.v + TtlSeconds(req, st[id]) * MsPerSec > t

\* C11: a ReadCacheFirst request that finds a valid entry returns at once, without
\* error, the cached payload with hitCache true and the entry's cacheTime; the
\* origin is not called and the cache container is neither written nor deleted from.
C11_ReadCacheFirstHit ==
    [][\A req \in Reqs :
          LET id == generateCacheId(req.api, req.parameters) IN
          (Request("p1", req, "ReadCacheFirst", "none") /\ ValidEntry(cache, req, now))
              => /\ pc'["p1"] = "done"
                 /\ err'["p1"] = NoErr
                 /\ ret'["p1"].result = Parse(cache[id].res)
                 /\ ret'["p1"].hitCache = TRUE
                 /\ ret'["p1"].cacheTime = cache[id]._ts
                 /\ loc'["p1"].origin = 0
                 /\ resp'["p1"] = "none"
                 /\ cache' = cache]_vars

\* a ReadCacheFirst request was served from the cache
C11_Witness ==
    /\ arg["p1"].op = "request"
    /\ arg["p1"].cacheOption = "ReadCacheFirst"
    /\ pc["p1"] = "done"
    /\ err["p1"] = NoErr
    /\ ret["p1"].hitCache = TRUE
    /\ ret["p1"].result = Data("[vm1]")
    /\ loc["p1"].origin = 0

\* C12: a ReadApiFirst request whose cache read answered, hit or miss, calls the
\* origin, returns the origin's data as its result and writes nothing to the
\* cache container.
C12_ReadApiFirstCallsOrigin ==
    \A p \in Procs :
        ( /\ arg[p].op = "request"
          /\ arg[p].cacheOption = "ReadApiFirst"
          /\ rstat[p] = "OK" )
        => /\ resp[p] = "none"
           /\ \/ pc[p] = "engOrigin"
              \/ /\ pc[p] = "done"
                 /\ loc[p].origin = 1
                 /\ err[p] = NoErr => ret[p].result = loc[p].data

\* C13: a ReadApiOnly request never reads the cache container, calls the origin
\* once, returns the origin's data with hitCache false, and no step of the
\* invocation changes the cache container.
C13_ReadApiOnly ==
    /\ [](\A p \in Procs :
            (arg[p].op = "request" /\ arg[p].cacheOption = "ReadApiOnly")
            => /\ rstat[p] = "none"
               /\ resp[p] = "none"
               /\ \/ pc[p] = "engOrigin" /\ loc[p].origin = 0
                  \/ /\ pc[p] = "done"
                     /\ loc[p].origin = 1
                     /\ err[p] \in {NoErr, OriginError}
                     /\ err[p] = NoErr =>
                           /\ ret[p].result = loc[p].data
                           /\ ret[p].hitCache = FALSE)
    /\ [][(arg'["p1"].op = "request" /\ arg'["p1"].cacheOption = "ReadApiOnly")
             => cache' = cache]_vars

\* a ReadApiOnly request returned the origin's data
C13_Witness ==
    /\ arg["p1"].op = "request"
    /\ arg["p1"].cacheOption = "ReadApiOnly"
    /\ pc["p1"] = "done"
    /\ err["p1"] = NoErr
    /\ loc["p1"].origin = 1
    /\ ret["p1"].result = Data("[vm1,vm2]")
    /\ ret["p1"].hitCache = FALSE
    /\ cache[generateCacheId(arg["p1"].req.api, arg["p1"].req.parameters)] # NoRec

\* C14: a ReadCacheOnly request never calls the origin and never writes to or
\* deletes from the cache container; on a hit it returns the cached payload, on
\* a miss a null result.
C14_ReadCacheOnly ==
    \A p \in Procs :
        ( /\ arg[p].op = "request"
          /\ arg[p].cacheOption = "ReadCacheOnly"
          /\ rstat[p] \in {"OK", "NOT_FOUND"} )
        => /\ pc[p] = "done"
           /\ loc[p].origin = 0
           /\ resp[p] = "none"
           /\ err[p] = NoErr
           /\ IF loc[p].hitCache
              THEN ret[p].result = Parse(loc[p].res.stringifiedData)
              ELSE ret[p].result = Null

\* C15: a ReadCacheAndDelete request never calls the origin; on a hit whose
\* delete was answered OK the entry is gone and the result is the payload the
\* entry held, with cacheTime 0; on a miss the result is null.
C15_ReadCacheAndDelete ==
    \A p \in Procs :
        ( /\ arg[p].op = "request"
          /\ arg[p].cacheOption = "ReadCacheAndDelete"
          /\ rstat[p] \in {"OK", "NOT_FOUND"} )
        => /\ loc[p].origin = 0
           /\ IF loc[p].hitCache
              THEN \/ pc[p] = "engDelete"
                   \/ /\ pc[p] = "done"
                      /\ resp[p] = "OK" =>
                           /\ err[p] = NoErr
                           /\ ~Exists(cache, generateCacheId(arg[p].req.api,
                                                             arg[p].req.parameters))
                           /\ ret[p].result = Parse(loc[p].res.stringifiedData)
                           /\ ret[p].cacheTime = Num(0)
              ELSE /\ pc[p] = "done"
                   /\ resp[p] = "none"
                   /\ err[p] = NoErr
                   /\ ret[p].result = Null

\* C17: generateCacheId gives equal ids for equal inputs and, for one api,
\* distinct ids for distinct parameter sequences, whatever their order or length.
C17_CacheIdInjective ==
    \A p, q \in Procs :
        ( /\ arg[p].op = "cacheId" /\ pc[p] = "done"
          /\ arg[q].op = "cacheId" /\ pc[q] = "done"
          /\ arg[p].api = arg[q].api )
        => (arg[p].parameters = arg[q].parameters <=> ret[p] = ret[q])

\* C18: a writeCache by api and parameters that succeeds over a row already
\* holding the same content leaves that one row under the generated id with the
\* payload unchanged, touches no other row, and a read of the request straight
\* after it is a hit with that payload.
C18_IdempotentOverwrite ==
    [][( /\ arg["p1"].op = "writeCache"
         /\ pc["p1"] = "wcUpsert"
         /\ pc'["p1"] = "done"
         /\ err'["p1"] = NoErr
         /\ arg["p1"].res.id = Undefined
         /\ LET res == arg["p1"].res
                id == generateCacheId(res.api, res.parameters)
            IN /\ cache[id] # NoRec
               /\ cache[id].res = res.stringifiedData
               /\ cache[id].ttl = Times(res.ttl, MsPerSec) )
       => LET res == arg["p1"].res
              id == generateCacheId(res.api, res.parameters)
              req == [api |-> res.api, parameters |-> res.parameters,
                      ttl |-> res.ttl]
              read == apiRequestReadCache(cache', req, now, "none")
          IN /\ cache'[id] # NoRec
             /\ cache'[id].id = id
             /\ cache'[id].res = res.stringifiedData
             /\ \A other \in CacheIds \ {id} : cache'[other] = cache[other]
             /\ read.err = NoErr
             /\ read.res # NoRec
             /\ read.res.stringifiedData = res.stringifiedData]_vars

\* the second of two identical writes succeeded
C18_Witness ==
    /\ arg["p1"].op = "writeCache"
    /\ pc["p1"] = "done"
    /\ err["p1"] = NoErr
    /\ resp["p1"] = "OK"
    /\ rev = 2
    /\ arg["p1"].res.id = Undefined
    /\ snap["p1"] # NoRec
    /\ snap["p1"]._etag # Etag(0)
    /\ snap["p1"].res = arg["p1"].res.stringifiedData
    /\ snap["p1"].ttl = Times(arg["p1"].res.ttl, MsPerSec)
    /\ cache[snap["p1"].id].res = arg["p1"].res.stringifiedData

\* C19: a writeCache given neither an id nor an api with parameters fails with
\* the invalid-argument error before any read or write of the store; given an
\* id it reads and writes the row of that id, given only api and parameters the
\* row of generateCacheId(api, parameters), and no other row.
C19_WriteCacheTarget ==
    [][arg'["p1"].op = "writeCache" =>
          LET res == arg'["p1"].res
              valid == \/ Truthy(res.id)
                       \/ Truthy(res.api) /\ Truthy(res.parameters)
              target == IF Truthy(res.id) THEN res.id
                        ELSE generateCacheId(res.api, res.parameters)
          IN
          IF ~valid THEN
              /\ pc'["p1"] = "done"
              /\ err'["p1"] = InvalidCacheResult
              /\ rstat'["p1"] = "none"
              /\ resp'["p1"] = "none"
              /\ cache' = cache
          ELSE
              /\ err'["p1"] # InvalidCacheResult
              /\ \A id \in CacheIds \ {target} : cache'[id] = cache[id]
              /\ snap'["p1"] # NoRec => snap'["p1"].id = target
              /\ (pc["p1"] = "wcUpsert" /\ resp'["p1"] \in {"OK", "CREATED"})
                    => /\ cache'[target] # NoRec
                       /\ cache'[target].id = target
                       /\ cache'[target].res = res.stringifiedData]_vars

\* a write under a named id, the api and parameters naming another row, succeeded
C19_Witness ==
    /\ arg["p1"].op = "writeCache"
    /\ pc["p1"] = "done"
    /\ err["p1"] = NoErr
    /\ resp["p1"] = "OK"
    /\ arg["p1"].res.id \in ExplicitIds
    /\ Truthy(arg["p1"].res.api)
    /\ Truthy(arg["p1"].res.parameters)
    /\ cache[arg["p1"].res.id].res = S("[vm1,vm2]")
    /\ arg["p1"].res.stringifiedData = S("[vm1,vm2]")

\* C16: listInstances under ReadCacheFirst: a call that finds no valid entry, the
\* cache empty or the entry's ttl elapsed, calls the origin once and, the origin
\* returning a list and the store answering, ends without error with hitCache
\* false, the list stored and the time of the write as cacheTime; a call that
\* finds the entry returns its payload and cacheTime with hitCache true and
\* calls no origin.
C16_ListInstancesSequence ==
    \A p \in Procs :
        ( /\ arg[p].op = "request"
          /\ arg[p].facade = "listInstances"
          /\ arg[p].cacheOption = "ReadCacheFirst"
          /\ rstat[p] \in {"OK", "NOT_FOUND"} )
        => IF loc[p].hitCache
           THEN /\ pc[p] = "done"
                /\ loc[p].origin = 0
                /\ err[p] = NoErr
                /\ ret[p].hitCache = TRUE
                /\ ret[p].result = Parse(loc[p].res.stringifiedData)
                /\ ret[p].cacheTime = loc[p].res.cacheTime
           ELSE \/ pc[p] \in {"engOrigin", "wcRead", "wcUpsert"}
                \/ /\ pc[p] = "done"
                   /\ loc[p].origin = 1
                   /\ (err[p] # OriginError /\ resp[p] \in {"none", "OK", "CREATED"})
                        => /\ err[p] = NoErr
                           /\ ret[p].hitCache = FALSE
                           /\ ret[p].result = loc[p].data
                           /\ loc[p].data # Null =>
                                LET id == generateCacheId(arg[p].req.api,
                                                          arg[p].req.parameters)
                                IN /\ cache[id] # NoRec
                                   /\ cache[id].res = Stringify(loc[p].data)
                                   /\ ret[p].cacheTime = cache[id]._ts

\* C20: describeInstance with an id that is a number requests the single
\* instance under the cache api describeInstance with parameters [group, id];
\* with any other id it requests the list of listInstances and, the store and
\* the origin answering, returns without error the element of the list whose
\* vmId is the id with the list's hitCache and cacheTime, the list being stored
\* when it came from the origin so that the cache window holds one origin call.
C20_DescribeInstanceBranches ==
    \A p \in Procs :
        (arg[p].op = "request" /\ arg[p].facade = "describeInstance")
        => IF arg[p].id = S("3")
           THEN arg[p].req = [api |-> S("describeInstance"),
                              parameters |-> Arr(<<"vmss-A", "3">>),
                              ttl |-> Num(FacadeTtl)]
           ELSE /\ arg[p].req.api = S("listInstances")
                /\ ( /\ arg[p].cacheOption = "ReadCacheFirst"
                     /\ pc[p] = "done"
                     /\ rstat[p] \in {"OK", "NOT_FOUND"}
                     /\ resp[p] \in {"none", "OK", "CREATED"}
                     /\ err[p] # OriginError )
                   => /\ err[p] = NoErr
                      /\ loc[p].data # Null =>
                           /\ ret[p].result = Find(loc[p].data, arg[p].id)
                           /\ ret[p].hitCache = loc[p].hitCache
                           /\ loc[p].origin = 1 =>
                                /\ cache[generateCacheId(arg[p].req.api,
                                                         arg[p].req.parameters)] # NoRec
                                /\ ret[p].cacheTime =
                                     cache[generateCacheId(arg[p].req.api,
                                                           arg[p].req.parameters)]._ts

\* C21: the ttl of the envelope a request gets back is the request's own ttl
\* when it carries one and the default 600 otherwise.
C21_EnvelopeTtl ==
    \A p \in Procs :
        (arg[p].op = "request" /\ pc[p] = "done" /\ err[p] = NoErr)
        => ret[p].ttl = IF arg[p].req.ttl # Undefined THEN arg[p].req.ttl
                        ELSE Num(DefaultTtl)

\* the failures save and delete raise on their own account: input validation,
\* the save condition, the consistency checks
LocalFailures ==
    {ValidationError, DbSaveError("NotFound"), DbSaveError("KeyConflict"),
     DbSaveError("InconsistentData"), DbDeleteError("InconsistentData")}

\* C22: a save or delete that fails on validation, on its save condition or on
\* a consistency check fails in the step before the upsert or delete would be
\* issued: no mutating call has an answer and the container is as it was.
C22_FailFast ==
    [][( /\ pc["p1"] # "done"
         /\ pc'["p1"] = "done"
         /\ arg'["p1"].op \in {"save", "delete"}
         /\ err'["p1"] \in LocalFailures )
       => /\ pc["p1"] = "idle"
          /\ resp'["p1"] = "none"
          /\ store' = store]_vars

\* a delete failed its full-match check on a stored document
C22_Witness ==
    /\ arg["p1"].op = "delete"
    /\ pc["p1"] = "done"
    /\ err["p1"] = DbDeleteError("InconsistentData")
    /\ rstat["p1"] = "OK"
    /\ resp["p1"] = "none"
    /\ snap["p1"] # NoRec
    /\ store[snap["p1"].id] = snap["p1"]
    /\ arg["p1"].item.settingValue # snap["p1"].settingValue

\* C23: no writeCache is answered with a failed precondition, and whenever the
\* upsert of a writeCache is applied, whatever other writes of the same id have
\* gone on since its snapshot, it succeeds and the row holds what it wrote.
C23_LastWriteWins ==
    /\ [](\A p \in Procs : resp[p] # "PRECONDITION_FAILED")
    /\ [][\A p \in Procs :
             WriteCacheUpsert(p, "none")
             => LET item == SaveCacheItem(arg[p].res) IN
                /\ err'[p] = NoErr
                /\ resp'[p] \in {"OK", "CREATED"}
                /\ cache'[item.id].res = item.res
                /\ cache'[item.id].ttl = item.ttl
                /\ ret'[p].cacheTime = cache'[item.id]._ts]_vars

\* two writes of different payloads, both from the snapshot of the same row,
\* both succeeded
C23_Witness ==
    /\ \A p \in Procs :
          /\ arg[p].op = "writeCache"
          /\ pc[p] = "done"
          /\ err[p] = NoErr
          /\ snap[p] # NoRec
          /\ snap[p]._etag = Etag(0)
    /\ arg["p1"].res.stringifiedData # arg["p2"].res.stringifiedData
    /\ rev = 2
    /\ \E p \in Procs :
          cache[snap[p].id].res = arg[p].res.stringifiedData

\* C24: a delete fails NotFound only when the backend answered not found, to
\* the snapshot read or to the delete; any other answer that is no success
\* makes it fail UnexpectedResponse.
C24_DeleteErrorKind ==
    \A p \in Procs :
        (arg[p].op = "delete" /\ pc[p] = "done")
        => /\ err[p] = DbDeleteError("NotFound")
                => (rstat[p] = "NOT_FOUND" \/ resp[p] = "NOT_FOUND")
           /\ (rstat[p] = "OTHER" \/ resp[p] = "OTHER")
                => err[p] = DbDeleteError("UnexpectedResponse")

\* C25: an invocation of requestWithCaching calls the origin at most once; when
\* the origin fails the invocation ends there with the origin's failure and the
\* cache container untouched; and an invocation whose cache read, write or
\* delete the store failed ends with the store's error.
C25_OneOriginCallNoSwallow ==
    /\ [](\A p \in Procs :
            arg[p].op = "request" =>
                /\ loc[p] # NoRec => loc[p].origin <= 1
                /\ ( /\ pc[p] = "done"
                     /\ \/ rstat[p] \in {"OTHER", "NOT_FOUND"}
                        \/ resp[p] \in {"OTHER", "NOT_FOUND", "PRECONDITION_FAILED"} )
                   => err[p].kind \in {"DbReadError", "DbSaveError", "DbDeleteError"})
    /\ [][\A data \in Payloads \cup {Null} :
             RequestOrigin("p1", TRUE, data)
             => /\ pc'["p1"] = "done"
                /\ err'["p1"] = OriginError
                /\ loc'["p1"].origin = 1
                /\ resp'["p1"] = "none"
                /\ cache' = cache]_vars

\* the origin of a request failed and the request ended with that failure
C25_Witness ==
    /\ arg["p1"].op = "request"
    /\ pc["p1"] = "done"
    /\ err["p1"] = OriginError
    /\ loc["p1"].origin = 1
    /\ resp["p1"] = "none"

\* C26: of the ReadCacheAndDelete invocations that run concurrently for one
\* request against one valid cache row, at most one ends successfully with
\* hitCache true, and every other one the backend answered ends with NotFound
\* from its read or from its delete; a row once consumed is not served again.
C26_ConsumedOnce ==
    /\ [](\A p, q \in Procs :
            ( /\ p # q
              /\ arg[p].op = "request" /\ arg[q].op = "request"
              /\ arg[p].cacheOption = "ReadCacheAndDelete"
              /\ arg[q].cacheOption = "ReadCacheAndDelete"
              /\ generateCacheId(arg[p].req.api, arg[p].req.parameters)
                   = generateCacheId(arg[q].req.api, arg[q].req.parameters)
              /\ pc[p] = "done" /\ err[p] = NoErr /\ ret[p].hitCache
              /\ pc[q] = "done" /\ rstat[q] # "OTHER" /\ resp[q] # "OTHER"
              /\ Alive(arg[q].req, loc[p].res, now) )
            => err[q] \in {DbReadError("NotFound"), DbDeleteError("NotFound")})
    /\ [](\A p, q \in Procs :
            ( /\ p # q
              /\ arg[p].op = "request" /\ arg[q].op = "request"
              /\ generateCacheId(arg[p].req.api, arg[p].req.parameters)
                   = generateCacheId(arg[q].req.api, arg[q].req.parameters)
              /\ pc[p] = "done" /\ err[p] = NoErr /\ ret[p].hitCache
              /\ pc[q] = "done" )
            => ~(err[q] = NoErr /\ ret[q].hitCache))
    /\ [][\A p \in Procs :
            ( /\ pc[p] = "engDelete" /\ pc'[p] = "done"
              /\ arg[p].cacheOption = "ReadCacheAndDelete"
              /\ err'[p] = NoErr )
            => LET id == generateCacheId(arg[p].req.api, arg[p].req.parameters) IN
               /\ ret'[p].hitCache
               /\ cache[id] # NoRec
               /\ cache'[id] = NoRec]_vars

\* both callers read the row while it was valid; one consumed it and the other's
\* delete found it gone
C26_Witness ==
    /\ arg["p1"].op = "request" /\ arg["p2"].op = "request"
    /\ arg["p1"].cacheOption = "ReadCacheAndDelete"
    /\ arg["p2"].cacheOption = "ReadCacheAndDelete"
    /\ pc["p1"] = "done" /\ err["p1"] = NoErr /\ ret["p1"].hitCache
    /\ pc["p2"] = "done" /\ rstat["p2"] = "OK" /\ resp["p2"] = "NOT_FOUND"
    /\ err["p2"] = DbDeleteError("NotFound")
    /\ Alive(arg["p2"].req, loc["p1"].res, now)

\* C27: in an invocation of requestWithCaching hitCache is true exactly when the
\* cache read of that invocation found a row that is valid (not expired) at that
\* time; an invocation with hitCache true never calls the origin; and under
\* ReadApiOnly hitCache is false.
C27_HitCacheMeaning ==
    /\ [](\A p \in Procs :
            (arg[p].op = "request" /\ loc[p] # NoRec) =>
                /\ loc[p].hitCache => loc[p].origin = 0
                /\ arg[p].cacheOption = "ReadApiOnly" => ~loc[p].hitCache
                /\ (pc[p] = "done" /\ err[p] = NoErr)
                      => ret[p].hitCache = loc[p].hitCache)
    /\ [][\A req \in Reqs, cacheOption \in CacheOptions :
             Request("p1", req, cacheOption, "none")
             => (loc'["p1"].hitCache
                   <=> (cacheOption # "ReadApiOnly" /\ ValidEntry(cache, req, now)))]_vars

=============================================================================
